---------------------------- MODULE Spec2Model ----------------------------
(***************************************************************************)
(* CategoryFilter (freqtrade/plugins/pairlist/CategoryFilter.py) as a      *)
(* state machine.  The filter object holds its configuration and a         *)
(* one-item TTL cache; callers (one thread under Spec, two under SpecConc) *)
(* run filter_pairlist and gen_pairlist, whose bodies are cut into steps   *)
(* at the accesses to the cache and at the calls to the provider, the only *)
(* places where another caller or the clock can be observed.               *)
(***************************************************************************)
EXTENDS Integers, Sequences, FiniteSets, TLC

(* ------------------------------ bounds -------------------------------- *)
\* The clock runs over 0..MaxTime.
MaxTime == 2
\* An incoming pairlist (and a ticker snapshot) holds at most MaxPairs pairs.
MaxPairs == 2
\* len(include) + len(exclude) is at most MaxCategories.
MaxCategories == 2

(* ------------------------------ inputs -------------------------------- *)
Threads == {"main", "worker"}
Categories == {"meme-token", "stablecoins"}
Pairs == {"DOGE/USDT", "USDT/USDC"}
RefreshPeriods == {1, 2}
StakeCurrencies == {"USDT", "USDC"}

\* Finite sequences over S of length at most n.
SeqUpTo(S, n) == UNION {[1..k -> S] : k \in 0..n}

Pairlists == SeqUpTo(Pairs, MaxPairs)

\* A ticker snapshot is a dict keyed by pair: an ordered sequence of distinct
\* keys, each ticker carrying its key as 'symbol' (as the exchange builds it).
TickerDicts ==
    {[i \in DOMAIN s |-> [key |-> s[i], symbol |-> s[i]]] :
        s \in {q \in Pairlists : \A i, j \in DOMAIN q : q[i] = q[j] => i = j}}

\* What coingecko may answer to get_coins_markets: a list of coins; a coin
\* is a dict that normally holds 'symbol' (lower case on the wire).
MarketResponses ==
    { <<[symbol |-> "doge"]>>,
      <<[symbol |-> "usdt"]>>,
      <<[symbol |-> "usdt"], [symbol |-> "doge"]>>,
      <<[id |-> "dogecoin"]>> }

(* -------------------------- the collaborators -------------------------- *)
\* exchange.get_pair_base_currency / get_pair_quote_currency: "BASE/QUOTE".
get_pair_base_currency(pair) ==
    CASE pair = "DOGE/USDT" -> "DOGE"
      [] pair = "USDT/USDC" -> "USDT"

get_pair_quote_currency(pair) ==
    CASE pair = "DOGE/USDT" -> "USDT"
      [] pair = "USDT/USDC" -> "USDC"

\* str.upper() on the symbols the provider sends.
upper(s) ==
    CASE s = "doge" -> "DOGE"
      [] s = "usdt" -> "USDT"
      [] OTHER -> s

(* ------------------------------- state -------------------------------- *)
VARIABLES
    _filters,           \* [include |-> categories, exclude |-> categories]
    _ignore_failures,
    _refresh_period,
    _enabled,
    _stake_currency,
    _filters_cache,     \* the TTLCache(maxsize=1): its stored item, if any
    now,                \* the cache's timer (time.monotonic)
    th                  \* per calling thread: its call in progress

vars == <<_filters, _ignore_failures, _refresh_period, _enabled,
          _stake_currency, _filters_cache, now, th>>

config == <<_filters, _ignore_failures, _refresh_period, _enabled,
            _stake_currency>>

EmptyDict == [k \in {} |-> <<>>]

\* dict[key] = value
DictSet(d, k, v) == [x \in DOMAIN d \cup {k} |-> IF x = k THEN v ELSE d[x]]

\* `for filter in self._filters`: a dict iterates in insertion order.
FilterOrder == <<"include", "exclude">>

\* Mutant of Entries: the exclude filter is visited first.
Entries_exclude_first ==
    [i \in 1..Len(_filters.exclude) |->
        [filter |-> "exclude", category |-> _filters.exclude[i]]]
    \o
    [i \in 1..Len(_filters.include) |->
        [filter |-> "include", category |-> _filters.include[i]]]

\* The (filter, category) pairs in the order the two nested loops of
\* _filter_pair and _fetch_filter_lists visit them.
Entries ==
    [i \in 1..Len(_filters.include) |->
        [filter |-> "include", category |-> _filters.include[i]]]
    \o
    [i \in 1..Len(_filters.exclude) |->
        [filter |-> "exclude", category |-> _filters.exclude[i]]]

NoCache == [present |-> FALSE, value |-> EmptyDict, expire |-> 0]
NoRet == [kind |-> "none", value |-> <<>>, error |-> "none"]
\* used: how old (since their store) the filter lists were when the call last
\* got them from _cached_filter_lists, and whether the cache supplied them.
NoUsed == [hit |-> FALSE, age |-> -1]
NoPrev == [valid |-> FALSE, ret |-> NoRet, cycles |-> 0]

\* A thread's call: pc is where it stands, op the method the caller invoked,
\* stage the method whose try block it is in; tickers, input, pairlist,
\* filter_lists, partial (the filter_lists of _fetch_filter_lists) and idx are
\* the arguments and locals; ret is the outcome.  Kept for the properties:
\* refreshError (the error that left _cached_filter_lists), cycles (the fetch
\* cycles the call started), cache0 (the cache when the running cycle
\* started), used, prev, reasons (what _filter_pair logged at line 176) and
\* calls (the get_coins_markets calls of the fetch cycle, line 209).
IdleThread ==
    [pc |-> "idle", op |-> "none", stage |-> "none",
     tickers |-> <<>>, input |-> <<>>, pairlist |-> <<>>,
     filter_lists |-> EmptyDict, partial |-> EmptyDict, idx |-> 0,
     ret |-> NoRet, refreshError |-> "none", cycles |-> 0, cache0 |-> NoCache,
     used |-> NoUsed, prev |-> NoPrev, reasons |-> <<>>, calls |-> <<>>]

\* Every include/exclude configuration of at most MaxCategories categories.
FilterConfigs ==
    {f \in {[include |-> i, exclude |-> e] :
                i \in SeqUpTo(Categories, MaxCategories),
                e \in SeqUpTo(Categories, MaxCategories)} :
        Len(f.include) + Len(f.exclude) <= MaxCategories}

\* The configurations with at most one include and one exclude category.
BasicConfigs ==
    {[include |-> i, exclude |-> e] :
        i \in {<<>>, <<"meme-token">>}, e \in {<<>>, <<"stablecoins">>}}

\* __init__, lines 67-89: the options are read, 'include' and 'exclude' must
\* be lists, and the cache starts empty.
InitWith(configs, periods, stakes) ==
    /\ _filters \in configs
    /\ _ignore_failures \in BOOLEAN
    /\ _refresh_period \in periods
    /\ _enabled \in BOOLEAN
    /\ _stake_currency \in stakes
    /\ _filters_cache = NoCache
    /\ now = 0
    /\ th = [t \in Threads |-> IdleThread]

Init == InitWith(BasicConfigs, RefreshPeriods, {"USDT"})

\* Every configuration; the clock stands still under SpecRules, so one
\* refresh period stands for all.
InitRules == InitWith(FilterConfigs, {1}, StakeCurrencies)


(* ------------------------- the pure functions -------------------------- *)
\* `coin in coin_list` on a Python list.
InList(coin, coin_list) == \E j \in 1..Len(coin_list) : coin_list[j] = coin

\* Mutant of rule: the exclude rule written like the include rule.
rule_same(filter, coin, coin_list) == InList(coin, coin_list)

\* self._filters[filter]['rule'], lines 73 and 77.
rule(filter, coin, coin_list) ==
    IF filter = "include" THEN InList(coin, coin_list)
                          ELSE ~InList(coin, coin_list)

\* Mutant of FirstFailing: the loops run on after a failing check, and the
\* last one found is the one reported.
FirstFailing_last(i, base_curr, filter_lists) ==
    LET failing == {k \in i..Len(Entries) :
                        ~rule(Entries[k].filter, base_curr,
                              filter_lists[Entries[k].filter][Entries[k].category])}
    IN  IF failing = {} THEN 0
        ELSE CHOOSE k \in failing : \A m \in failing : m <= k

\* The two nested loops of _filter_pair from the i-th (filter, category) on:
\* the index of the first check that fails, 0 when none fails.
RECURSIVE FirstFailing(_, _, _)
FirstFailing(i, base_curr, filter_lists) ==
    IF i > Len(Entries) THEN 0
    ELSE IF ~rule(Entries[i].filter, base_curr,
                  filter_lists[Entries[i].filter][Entries[i].category])
         THEN i
         ELSE FirstFailing(i + 1, base_curr, filter_lists)

\* _filter_pair, lines 160-179: TRUE when the pair is filtered out.
_filter_pair(pair, filter_lists) ==
    FirstFailing(1, get_pair_base_currency(pair), filter_lists) # 0

\* _filter_pair, lines 176-177: what logger.info is given, the pair, its base
\* currency and the filter and category of the check that failed; nothing
\* when the loops end without a failing check.
_filter_pair_log(pair, filter_lists) ==
    LET base_curr == get_pair_base_currency(pair)
        k == FirstFailing(1, base_curr, filter_lists)
    IN  IF k = 0 THEN <<>>
        ELSE <<[pair |-> pair, base_curr |-> base_curr,
                filter |-> Entries[k].filter,
                category |-> Entries[k].category]>>

\* list.remove(x): drops the first item equal to x.
remove(list, x) ==
    LET k == CHOOSE i \in 1..Len(list) :
                 list[i] = x /\ \A j \in 1..(i - 1) : list[j] # x
    IN  [i \in 1..(Len(list) - 1) |-> IF i < k THEN list[i] ELSE list[i + 1]]

\* Mutant of FilterLoop: the loop runs over the list it edits, not a copy.
RECURSIVE FilterLoop_nocopy(_, _, _, _)
FilterLoop_nocopy(orig_pairlist, i, pairlist, filter_lists) ==
    IF i > Len(pairlist) THEN pairlist
    ELSE FilterLoop_nocopy(orig_pairlist, i + 1,
                           IF _filter_pair(pairlist[i], filter_lists)
                           THEN remove(pairlist, pairlist[i])
                           ELSE pairlist,
                           filter_lists)

\* The loop of filter_pairlist, lines 152-155: orig_pairlist is the copy
\* that is iterated, pairlist the caller's list that is edited in place.
RECURSIVE FilterLoop(_, _, _, _)
FilterLoop(orig_pairlist, i, pairlist, filter_lists) ==
    IF i > Len(orig_pairlist) THEN pairlist
    ELSE FilterLoop(orig_pairlist, i + 1,
                    IF _filter_pair(orig_pairlist[i], filter_lists)
                    THEN remove(pairlist, orig_pairlist[i])
                    ELSE pairlist,
                    filter_lists)

\* The log entries of the loop of filter_pairlist, lines 153-154: one call
\* of _filter_pair for each item of orig_pairlist, in order.
RECURSIVE LoopLog(_, _)
LoopLog(orig_pairlist, filter_lists) ==
    IF orig_pairlist = <<>> THEN <<>>
    ELSE _filter_pair_log(Head(orig_pairlist), filter_lists)
            \o LoopLog(Tail(orig_pairlist), filter_lists)

\* Mutant of SelectPairlist: the quote currency is not looked at.
SelectPairlist_all(tickers) == [i \in DOMAIN tickers |-> tickers[i].symbol]

\* gen_pairlist, lines 120-123: the symbols of the tickers whose key has the
\* stake currency as its quote currency, in the dict's order.
SelectPairlist(tickers) ==
    LET keep(tk) == get_pair_quote_currency(tk.key) = _stake_currency
        filtered_tickers == SelectSeq(tickers, keep)
    IN  [i \in DOMAIN filtered_tickers |-> filtered_tickers[i].symbol]

\* Line 213: [coin['symbol'].upper() for coin in markets]; a coin without
\* 'symbol' makes the comprehension raise KeyError.
Parseable(markets) == \A i \in DOMAIN markets : "symbol" \in DOMAIN markets[i]
CoinList(markets) == [i \in DOMAIN markets |-> upper(markets[i].symbol)]

\* Lines 205-206: `filter_lists[filter] = {}` has run for every filter up to
\* and including the k-th of FilterOrder.
OpenFilters(d, k) ==
    [f \in DOMAIN d \cup {FilterOrder[j] : j \in 1..k} |->
        IF f \in DOMAIN d THEN d[f] ELSE EmptyDict]

FilterIndex(filter) == CHOOSE j \in DOMAIN FilterOrder : FilterOrder[j] = filter

(* ----------------------------- the TTLCache ---------------------------- *)
\* Mutant of Expired: an item outlives its expiry time by one tick.
Expired_late(item, time) == item.expire + 1 < time

\* cachetools.ttl (the submodule exists in cachetools before 5.0): an item
\* is expired once its expiry time lies strictly before the timer.
Expired(item, time) == item.expire < time

\* Mutant of CacheGet: the lookup never finds the item.
CacheGet_miss == [some |-> FALSE, value |-> EmptyDict]

\* TTLCache.get('single_item', None): the value, or None.
CacheGet ==
    IF _filters_cache.present /\ ~Expired(_filters_cache, now)
    THEN [some |-> TRUE, value |-> _filters_cache.value]
    ELSE [some |-> FALSE, value |-> EmptyDict]

\* Mutant of CacheSet: an empty dict is stored in place of the value.
CacheSet_blank(value) ==
    [present |-> TRUE, value |-> EmptyDict, expire |-> now + _refresh_period]

\* TTLCache.__setitem__: the item replaces what is stored and expires ttl
\* after the time of the store.
CacheSet(value) ==
    [present |-> TRUE, value |-> value, expire |-> now + _refresh_period]

\* The time since the stored item was stored.
CacheAge == now - (_filters_cache.expire - _refresh_period)

\* `if not filter_lists`: None and the empty dict are both falsy.
Falsy(got) == ~got.some \/ got.value = EmptyDict


(* ------------------------------ the calls ------------------------------ *)
Return(value) == [kind |-> "return", value |-> value, error |-> "none"]
Raise(error) == [kind |-> "raise", value |-> <<>>, error |-> error]

\* The call of thread record r ends with ret; its locals are gone.
Finish(r, ret) ==
    [r EXCEPT !.pc = "done", !.ret = ret, !.partial = EmptyDict, !.idx = 0]

\* gen_pairlist, lines 111-117: the handler of TemporaryError.  With
\* ignore_failures the warning at line 114 reads `pair`, a name that neither
\* gen_pairlist nor the module defines: NameError, and line 116 is not reached.
gen_pairlist_except ==
    IF _ignore_failures THEN Raise("NameError") ELSE Raise("TemporaryError")

\* Mutant of filter_pairlist_except: the error is swallowed whatever
\* ignore_failures says.
filter_pairlist_except_swallow == Raise("UnboundLocalError")

\* filter_pairlist, lines 143-149: the handler of TemporaryError.  With
\* ignore_failures the warning at line 146 reads the local `pair`, which only
\* the loop at line 153 assigns: UnboundLocalError, and line 148 is not reached.
filter_pairlist_except ==
    IF _ignore_failures THEN Raise("UnboundLocalError")
                        ELSE Raise("TemporaryError")

\* Mutant of OnTemporaryError: the call that observed the failure looks the
\* snapshot up once more before it gives up.
OnTemporaryError_retry(r) ==
    IF r.cycles < 2
    THEN [r EXCEPT !.pc = "lookup", !.partial = EmptyDict, !.idx = 0]
    ELSE Finish([r EXCEPT !.refreshError = "TemporaryError"],
                IF r.stage = "gen" THEN gen_pairlist_except
                                   ELSE filter_pairlist_except)

\* _cached_filter_lists raised TemporaryError into the try block of r.stage.
OnTemporaryError(r) ==
    Finish([r EXCEPT !.refreshError = "TemporaryError"],
           IF r.stage = "gen" THEN gen_pairlist_except
                              ELSE filter_pairlist_except)

\* Mutant of EnterFilter: the enabled flag is not looked at.
EnterFilter_always(r, pairlist) ==
    [r EXCEPT !.input = pairlist, !.pairlist = pairlist,
              !.stage = "filter", !.pc = "lookup"]

\* filter_pairlist up to its call of _cached_filter_lists, lines 138-142.
EnterFilter(r, pairlist) ==
    LET r1 == [r EXCEPT !.input = pairlist, !.pairlist = pairlist,
                        !.stage = "filter"]
    IN  IF ~_enabled THEN Finish(r1, Return(pairlist))
                     ELSE [r1 EXCEPT !.pc = "lookup"]

\* Mutant of Continue: filter_pairlist edits a copy of the list and returns
\* the copy; the list of the caller is not touched.
Continue_copy(r, filter_lists) ==
    IF r.stage = "filter"
    THEN LET result == FilterLoop(r.pairlist, 1, r.pairlist, filter_lists)
         IN  Finish([r EXCEPT !.filter_lists = filter_lists,
                              !.reasons = LoopLog(r.pairlist, filter_lists)],
                    Return(result))
    ELSE EnterFilter([r EXCEPT !.filter_lists = filter_lists],
                     SelectPairlist(r.tickers))

\* What follows the return of _cached_filter_lists with filter_lists: in
\* filter_pairlist lines 151-158, in gen_pairlist lines 119-125.
Continue(r, filter_lists) ==
    IF r.stage = "filter"
    THEN LET result == FilterLoop(r.pairlist, 1, r.pairlist, filter_lists)
         IN  Finish([r EXCEPT !.filter_lists = filter_lists,
                              !.pairlist = result,
                              !.reasons = LoopLog(r.pairlist, filter_lists)],
                    Return(result))
    ELSE EnterFilter([r EXCEPT !.filter_lists = filter_lists],
                     SelectPairlist(r.tickers))

\* The outcome of the caller's previous filter_pairlist call, kept when the
\* caller passes the same list again (the same object, or a list with the
\* contents it first passed) and the clock has not moved since.
Previous(last, pairlist) ==
    IF /\ last.op = "filter_pairlist"
       /\ last.ret.kind # "none"
       /\ pairlist \in {last.input, last.pairlist}
    THEN [valid |-> TRUE, ret |-> last.ret, cycles |-> last.cycles]
    ELSE NoPrev

\* What is left of a finished call once its caller has the outcome: the list
\* object it passed and what came back.
Last(r) ==
    IF r.op = "filter_pairlist"
    THEN [IdleThread EXCEPT !.op = r.op, !.input = r.input,
                            !.pairlist = r.pairlist, !.ret = r.ret,
                            !.cycles = r.cycles]
    ELSE IdleThread

\* The clock moves: a caller between two calls no longer counts as calling
\* "twice without passage of time".
Elapse(r) ==
    IF r.pc = "idle" THEN IdleThread ELSE [r EXCEPT !.prev = NoPrev]

(* ----------------------------- the actions ----------------------------- *)
\* A caller invokes filter_pairlist(pairlist, tickers).
filter_pairlist(t, pairlist) ==
    /\ th[t].pc = "idle"
    /\ th' = [th EXCEPT ![t] =
                EnterFilter([IdleThread EXCEPT
                                !.op = "filter_pairlist",
                                !.prev = Previous(th[t], pairlist)],
                            pairlist)]
    /\ UNCHANGED <<config, _filters_cache, now>>

\* A caller invokes gen_pairlist(tickers), lines 105-110.
gen_pairlist(t, tickers) ==
    /\ th[t].pc = "idle"
    /\ th' = [th EXCEPT ![t] =
                [IdleThread EXCEPT !.op = "gen_pairlist", !.stage = "gen",
                                   !.tickers = tickers, !.pc = "lookup"]]
    /\ UNCHANGED <<config, _filters_cache, now>>

\* _cached_filter_lists, lines 189-191 and 193: the cache is read; a hit
\* returns to the caller, a miss enters _fetch_filter_lists (line 204).
_cached_filter_lists(t) ==
    /\ th[t].pc = "lookup"
    /\ LET r == th[t]
           got == CacheGet
       IN  th' = [th EXCEPT ![t] =
                IF Falsy(got)
                THEN IF Entries = <<>>
                     THEN [r EXCEPT !.pc = "store", !.cycles = @ + 1,
                              !.cache0 = _filters_cache, !.calls = <<>>,
                              !.partial = OpenFilters(EmptyDict, Len(FilterOrder))]
                     ELSE [r EXCEPT !.pc = "fetch", !.cycles = @ + 1,
                              !.cache0 = _filters_cache, !.calls = <<>>,
                              !.partial = EmptyDict, !.idx = 1]
                ELSE Continue([r EXCEPT !.used =
                                  [hit |-> TRUE, age |-> CacheAge]],
                              got.value)]
    /\ UNCHANGED <<config, _filters_cache, now>>

\* Mutant of _fetch_filter_lists: a failing provider call also evicts what
\* the cache stores.
_fetch_filter_lists_evict(t) ==
    /\ th[t].pc = "fetch"
    /\ LET e == Entries[th[t].idx]
           r == [th[t] EXCEPT !.calls = Append(@, e)]
           d == OpenFilters(r.partial, FilterIndex(e.filter))
       IN  \/ /\ th' = [th EXCEPT ![t] = OnTemporaryError(r)]
              /\ _filters_cache' = NoCache
           \/ /\ \E markets \in {m \in MarketResponses : Parseable(m)} :
                    LET d2 == [d EXCEPT ![e.filter] =
                                  DictSet(d[e.filter], e.category,
                                          CoinList(markets))]
                    IN  th' = [th EXCEPT ![t] =
                            IF r.idx = Len(Entries)
                            THEN [r EXCEPT !.pc = "store", !.idx = 0,
                                     !.partial = OpenFilters(d2, Len(FilterOrder))]
                            ELSE [r EXCEPT !.partial = d2, !.idx = r.idx + 1]]
              /\ UNCHANGED _filters_cache
    /\ UNCHANGED <<config, now>>

\* _fetch_filter_lists, lines 205-217: one turn of the inner loop, the call
\* of the provider for the idx-th (filter, category), which calls records
\* whether it raises or answers.
_fetch_filter_lists(t) ==
    /\ th[t].pc = "fetch"
    /\ LET e == Entries[th[t].idx]
           r == [th[t] EXCEPT !.calls = Append(@, e)]
           d == OpenFilters(r.partial, FilterIndex(e.filter))
       IN  \/ \* get_coins_markets raises: lines 211-212
              th' = [th EXCEPT ![t] = OnTemporaryError(r)]
           \/ \E markets \in MarketResponses :
                th' = [th EXCEPT ![t] =
                    IF ~Parseable(markets)
                    THEN \* line 213, outside the try: nothing catches it
                         Finish([r EXCEPT !.refreshError = "KeyError"],
                                Raise("KeyError"))
                    ELSE LET d2 == [d EXCEPT ![e.filter] =
                                      DictSet(d[e.filter], e.category,
                                              CoinList(markets))]
                         IN  IF r.idx = Len(Entries)
                             THEN [r EXCEPT !.pc = "store", !.idx = 0,
                                      !.partial = OpenFilters(d2, Len(FilterOrder))]
                             ELSE [r EXCEPT !.partial = d2, !.idx = r.idx + 1]]
    /\ UNCHANGED <<config, _filters_cache, now>>

\* _cached_filter_lists, lines 192-193: the fetched lists are stored and
\* returned to the caller.
_cached_filter_lists_store(t) ==
    /\ th[t].pc = "store"
    /\ _filters_cache' = CacheSet(th[t].partial)
    /\ th' = [th EXCEPT ![t] =
                Continue([th[t] EXCEPT !.used = [hit |-> FALSE, age |-> 0],
                                       !.partial = EmptyDict],
                         th[t].partial)]
    /\ UNCHANGED <<config, now>>

\* The call returns (or raises) to its caller.
ReturnToCaller(t) ==
    /\ th[t].pc = "done"
    /\ th' = [th EXCEPT ![t] = Last(th[t])]
    /\ UNCHANGED <<config, _filters_cache, now>>

\* Time passes (the sleeps of line 216, the waits between calls).
Tick ==
    /\ now < MaxTime
    /\ \A t \in Threads : th[t].pc # "done"
    /\ now' = now + 1
    /\ th' = [t \in Threads |-> Elapse(th[t])]
    /\ UNCHANGED <<config, _filters_cache>>

(* --------------------------- the construction ------------------------- *)
\* Python values as the options of pairlistconfig may hold them: a str, an
\* int, or a list of such values.
PyStr(s) == [type |-> "str", value |-> s, items |-> <<>>]
PyInt(n) == [type |-> "int", value |-> n, items |-> <<>>]
PyList(items) == [type |-> "list", value |-> "", items |-> items]

\* isinstance(value, list)
IsList(value) == value.type = "list"

\* An option of pairlistconfig: present with a value, or absent.
Absent(placeholder) == [has |-> FALSE, value |-> placeholder]
Given(value) == [has |-> TRUE, value |-> value]

\* pairlistconfig.get(key, default)
get(option, default) == IF option.has THEN option.value ELSE default

\* What a user may write for 'include' and for 'exclude'.
CategoryOptions ==
    { Absent(PyList(<<>>)),
      Given(PyStr("meme-token")),
      Given(PyInt("5")),
      Given(PyList(<<>>)),
      Given(PyList(<<PyStr("meme-token")>>)),
      Given(PyList(<<PyStr("meme-token"), PyStr("stablecoins")>>)),
      Given(PyList(<<PyInt("5")>>)),
      Given(PyList(<<PyStr("stablecoins"), PyInt("5")>>)) }

PairlistConfigs ==
    [include : CategoryOptions,
     exclude : CategoryOptions,
     ignore_failures : {Absent(TRUE), Given(TRUE), Given(FALSE)},
     refresh_period : {Absent(0)} \cup {Given(p) : p \in RefreshPeriods}]

\* An attribute that no assignment has set yet.
Unset == "unset"

\* The object as __init__ finds it, and the thread that constructs it.
InitNew ==
    /\ _filters = Unset
    /\ _ignore_failures = Unset
    /\ _refresh_period = Unset
    /\ _enabled = Unset
    /\ _stake_currency = Unset
    /\ _filters_cache = Unset
    /\ now = 0
    /\ th = [t \in Threads |->
                IF t = "main" THEN [IdleThread EXCEPT !.pc = "new"]
                              ELSE IdleThread]

\* __init__, lines 62-89.  The attributes are assigned from the options
\* (lines 69-82), then each of 'include' and 'exclude' must be a list (lines
\* 84-86: isinstance(..., list) is the whole test, the items of the list are
\* not looked at), then the cache is created (line 89).  No line of it calls
\* the provider: CoinGeckoAPI() at line 67 only builds the client.
__init__(t, stake_currency, enabled, pairlistconfig) ==
    /\ th[t].pc = "new"
    /\ _stake_currency' = stake_currency
    /\ _enabled' = enabled
    /\ _filters' = [include |-> get(pairlistconfig.include, PyList(<<>>)),
                    exclude |-> get(pairlistconfig.exclude, PyList(<<>>))]
    /\ _ignore_failures' = get(pairlistconfig.ignore_failures, TRUE)
    /\ _refresh_period' = get(pairlistconfig.refresh_period, 86400)
    /\ IF \E j \in DOMAIN FilterOrder : ~IsList(_filters'[FilterOrder[j]])
       THEN /\ th' = [th EXCEPT ![t] =
                        Finish([@ EXCEPT !.op = "__init__"],
                               Raise("OperationalException"))]
            /\ UNCHANGED _filters_cache
       ELSE /\ th' = [th EXCEPT ![t] =
                        Finish([@ EXCEPT !.op = "__init__"], Return(<<>>))]
            /\ _filters_cache' = NoCache
    /\ UNCHANGED now

(* -------------------------- the specifications ------------------------- *)
Main == "main"

\* Single-threaded use: the pairlist manager's thread alone calls the filter.
Next ==
    \/ \E pairlist \in Pairlists : filter_pairlist(Main, pairlist)
    \/ \E tickers \in TickerDicts : gen_pairlist(Main, tickers)
    \/ _cached_filter_lists(Main)
    \/ _fetch_filter_lists(Main)
    \/ _cached_filter_lists_store(Main)
    \/ ReturnToCaller(Main)
    \/ Tick

Spec == Init /\ [][Next]_vars

\* The same calls under every include/exclude configuration, the clock
\* standing still.
NextRules ==
    \/ \E pairlist \in Pairlists : filter_pairlist(Main, pairlist)
    \/ \E tickers \in TickerDicts : gen_pairlist(Main, tickers)
    \/ _cached_filter_lists(Main)
    \/ _fetch_filter_lists(Main)
    \/ _cached_filter_lists_store(Main)
    \/ ReturnToCaller(Main)

SpecRules == InitRules /\ [][NextRules]_vars

\* Several threads call filter_pairlist on the one filter object.
ConcPairlists == {<<"DOGE/USDT", "USDT/USDC">>}

NextConc ==
    \/ \E t \in Threads, pairlist \in ConcPairlists : filter_pairlist(t, pairlist)
    \/ \E t \in Threads : _cached_filter_lists(t)
    \/ \E t \in Threads : _fetch_filter_lists(t)
    \/ \E t \in Threads : _cached_filter_lists_store(t)
    \/ \E t \in Threads : ReturnToCaller(t)
    \/ Tick

SpecConc == Init /\ [][NextConc]_vars


\* The construction of the filter from every pairlistconfig.
NextInit ==
    \E stake_currency \in StakeCurrencies, enabled \in BOOLEAN,
       pairlistconfig \in PairlistConfigs :
        __init__(Main, stake_currency, enabled, pairlistconfig)

SpecInit == InitNew /\ [][NextInit]_vars

(* ---------------------------- the properties --------------------------- *)
\* The symbols of a category's coin list.
SymbolSet(coin_list) == {coin_list[j] : j \in DOMAIN coin_list}

\* The pair's base asset is in every include category's symbol set and in no
\* exclude category's symbol set of the snapshot.
Kept(pair, snapshot) ==
    /\ \A i \in DOMAIN _filters.include :
          get_pair_base_currency(pair)
              \in SymbolSet(snapshot["include"][_filters.include[i]])
    /\ \A i \in DOMAIN _filters.exclude :
          get_pair_base_currency(pair)
              \notin SymbolSet(snapshot["exclude"][_filters.exclude[i]])

\* The occurrences of list that satisfy Kept, in their order.
RECURSIVE KeptOf(_, _)
KeptOf(list, snapshot) ==
    IF list = <<>> THEN <<>>
    ELSE IF Kept(Head(list), snapshot)
         THEN <<Head(list)>> \o KeptOf(Tail(list), snapshot)
         ELSE KeptOf(Tail(list), snapshot)

\* Thread t's call has ended and its outcome is at hand.
Done(t) == th[t].pc = "done"

\* The call of t went through the filter step of filter_pairlist (lines
\* 151-158) and returned: a successful call of the enabled filter.
Filtered(t) ==
    /\ Done(t)
    /\ _enabled
    /\ th[t].stage = "filter"
    /\ th[t].ret.kind = "return"

\* C1: a successful filter_pairlist call retains a pair of its input if and
\* only if the pair's base asset is in the symbol set of every configured
\* include category and of no configured exclude category of the snapshot;
\* so a pair missing from one include category is dropped whatever the
\* exclude configuration, and a pair in one exclude category is dropped
\* whatever the include configuration.
C1_RetainedIffIncludedAndNotExcluded ==
    \A t \in Threads :
        Filtered(t) =>
            \A pair \in Pairs :
                InList(pair, th[t].ret.value)
                    <=> (InList(pair, th[t].input)
                         /\ Kept(pair, th[t].filter_lists))

\* C1 witness: under two include categories, a call kept one pair of its
\* input and dropped another.
C1_Witness ==
    \E t \in Threads :
        /\ Filtered(t)
        /\ Len(_filters.include) = 2
        /\ \E p, q \in Pairs :
              /\ InList(p, th[t].input) /\ InList(p, th[t].ret.value)
              /\ InList(q, th[t].input) /\ ~InList(q, th[t].ret.value)

\* A call in which the retrieval of the snapshot failed with a provider
\* error (TemporaryError left _cached_filter_lists) has ended.
ProviderFailed(t) == Done(t) /\ th[t].refreshError = "TemporaryError"

\* C2 (the claim as stated): with ignore_failures, a filter_pairlist call whose
\* snapshot retrieval fails with a provider error returns its input pairlist
\* unchanged and does not raise.
C2_FailOpenReturnsInput ==
    \A t \in Threads :
        (ProviderFailed(t) /\ th[t].op = "filter_pairlist" /\ _ignore_failures)
            => /\ th[t].ret = Return(th[t].input)
               /\ th[t].pairlist = th[t].input

\* C3: without ignore_failures, a call (filter_pairlist or gen_pairlist) whose
\* snapshot retrieval fails with a provider error raises that error: there is
\* no result, the list passed in holds what it held, and the cache holds no
\* snapshot a lookup would return.
C3_FailClosedPropagates ==
    \A t \in Threads :
        (ProviderFailed(t) /\ ~_ignore_failures)
            => /\ th[t].ret = Raise("TemporaryError")
               /\ th[t].pairlist = th[t].input
               /\ _filters_cache = th[t].cache0
               /\ ~CacheGet.some

\* C3 witness: a fail-closed filter_pairlist call on a non-empty list raised,
\* the expired snapshot of an earlier fetch still being stored.
C3_Witness ==
    \E t \in Threads :
        /\ ProviderFailed(t)
        /\ ~_ignore_failures
        /\ th[t].op = "filter_pairlist"
        /\ th[t].input # <<>>
        /\ _filters_cache.present

\* C4: within one TTL window (the first call returned, so it had a snapshot)
\* and with the clock standing still, the second of two successive
\* filter_pairlist calls on the same input returns what the first returned,
\* and the two calls started at most one fetch cycle; and no fetch cycle runs
\* while the cache holds a snapshot that is not older than refresh_period.
C4_IdempotentWithinWindow ==
    \A t \in Threads :
        /\ (/\ Done(t)
            /\ th[t].op = "filter_pairlist"
            /\ th[t].prev.valid
            /\ th[t].prev.ret.kind = "return")
               => /\ th[t].ret = th[t].prev.ret
                  /\ th[t].prev.cycles + th[t].cycles <= 1
        /\ (th[t].pc \in {"fetch", "store"})
               => ~(_filters_cache.present /\ CacheAge <= _refresh_period)

\* C4 witness: the first call fetched and filtered a pair out, and the second
\* call on a list with the same contents has ended without a fetch.
C4_Witness ==
    \E t \in Threads :
        /\ Filtered(t)
        /\ th[t].op = "filter_pairlist"
        /\ th[t].prev.valid
        /\ th[t].prev.ret.kind = "return"
        /\ th[t].prev.cycles = 1
        /\ th[t].cycles = 0
        /\ th[t].ret.value # th[t].input

\* C5 (the claim as stated): a snapshot whose age is at least refresh_period
\* is never used.
C5_NotUsedFromRefreshPeriodOn ==
    \A t \in Threads :
        th[t].used.hit => th[t].used.age < _refresh_period

\* The call of t got its snapshot by a refresh of its own.
Refreshed(t) == Filtered(t) /\ ~th[t].used.hit

\* C5 (amended): a snapshot older than refresh_period is never used (at the
\* age of exactly refresh_period it still is); a call that finds none it may
\* use runs a full refresh, and a successful refresh replaces the cached
\* snapshot and restarts the expiry window at the moment of the store.
C5_NotUsedBeyondRefreshPeriod ==
    \A t \in Threads :
        /\ th[t].used.hit => th[t].used.age <= _refresh_period
        /\ Refreshed(t) =>
              /\ th[t].cycles >= 1
              /\ _filters_cache.present
              /\ _filters_cache.value = th[t].filter_lists
              /\ CacheAge = 0
              /\ _filters_cache.expire = now + _refresh_period

\* C5 witness: a call has refreshed the cache at a time when an earlier
\* snapshot had already been stored and had expired.
C5_Witness ==
    \E t \in Threads :
        /\ Refreshed(t)
        /\ th[t].op = "filter_pairlist"
        /\ th[t].cache0.present
        /\ now - (th[t].cache0.expire - _refresh_period) > _refresh_period
        /\ _filters_cache.value # th[t].cache0.value

\* C6: the result of a successful filter_pairlist call is the subsequence of
\* its input made of the occurrences of the pairs that are not excluded, in
\* the input's order, whether or not a pair occurs more than once.
C6_ResultIsKeptSubsequence ==
    \A t \in Threads :
        Filtered(t) => th[t].ret.value = KeptOf(th[t].input, th[t].filter_lists)

\* C6 witness: both occurrences of an excluded pair were removed.
C6_Witness ==
    \E t \in Threads :
        /\ Filtered(t)
        /\ Len(th[t].input) = 2
        /\ th[t].input[1] = th[t].input[2]
        /\ th[t].ret.value = <<>>

\* C7 (the claim as stated): at most one fetch cycle is in flight at a time.
C7_OneFetchCycleInFlight ==
    Cardinality({t \in Threads : th[t].pc \in {"fetch", "store"}}) <= 1

\* C8 (the claim as stated): when a category fetch of a refresh cycle fails,
\* a provider error leaves the refresh, the partial snapshot is gone and the
\* cache is as it was when the cycle started.
C8_FailedRefreshKeepsCache ==
    \A t \in Threads :
        (Done(t) /\ th[t].refreshError # "none")
            => /\ th[t].refreshError = "TemporaryError"
               /\ th[t].partial = EmptyDict
               /\ _filters_cache = th[t].cache0

\* The cache is never partially updated: what is stored holds, for both
\* filters, a coin list for each configured category, and a failed refresh
\* leaves the cache as it was when the cycle started.
CacheNeverPartial ==
    /\ _filters_cache.present =>
          /\ DOMAIN _filters_cache.value = {"include", "exclude"}
          /\ \A i \in DOMAIN Entries :
                Entries[i].category
                    \in DOMAIN _filters_cache.value[Entries[i].filter]
    /\ \A t \in Threads :
          (Done(t) /\ th[t].refreshError # "none")
              => (th[t].partial = EmptyDict /\ _filters_cache = th[t].cache0)

\* C9 (the claim as stated): with ignore_failures, a gen_pairlist call whose
\* snapshot retrieval fails with a provider error returns an empty pair list
\* and does not raise.
C9_GenFailOpenReturnsEmpty ==
    \A t \in Threads :
        (ProviderFailed(t) /\ th[t].op = "gen_pairlist" /\ _ignore_failures)
            => th[t].ret = Return(<<>>)

\* The symbols of the tickers whose key is quoted in the stake currency, in
\* the order of the ticker dict.
RECURSIVE StakeSymbols(_)
StakeSymbols(tickers) ==
    IF tickers = <<>> THEN <<>>
    ELSE IF get_pair_quote_currency(Head(tickers).key) = _stake_currency
         THEN <<Head(tickers).symbol>> \o StakeSymbols(Tail(tickers))
         ELSE StakeSymbols(Tail(tickers))

C11_DisabledReturnsInput ==
    [][\A t \in Threads :
          (/\ th[t].pc = "idle"
           /\ th'[t].op = "filter_pairlist"
           /\ th'[t].pc # "idle"
           /\ ~_enabled)
              => /\ th'[t].pc = "done"
                 /\ th'[t].ret = Return(th'[t].input)
                 /\ th'[t].pairlist = th'[t].input
                 /\ th'[t].cycles = 0
                 /\ th'[t].used = NoUsed
                 /\ th'[t].refreshError = "none"
                 /\ _filters_cache' = _filters_cache]_vars

\* C11 witness: the disabled filter returned a non-empty list while the cache
\* held a snapshot (stored by an earlier gen_pairlist call).
C11_Witness ==
    \E t \in Threads :
        /\ Done(t)
        /\ ~_enabled
        /\ th[t].op = "filter_pairlist"
        /\ th[t].input # <<>>
        /\ th[t].ret = Return(th[t].input)
        /\ _filters_cache.present

\* A list whose items are all of type str.
ListOfStrings(value) ==
    /\ IsList(value)
    /\ \A i \in DOMAIN value.items : value.items[i].type = "str"

\* C12 (the claim as stated): the construction fails with a configuration
\* error exactly when 'include' or 'exclude' is not a list of strings (not a
\* list, or a list holding an item that is not a string), and it fails with
\* no fetch cycle started; a constructed filter holds lists of strings.
C12_ConstructionValidates ==
    \A t \in Threads :
        (Done(t) /\ th[t].op = "__init__")
            => /\ th[t].cycles = 0
               /\ IF ListOfStrings(_filters.include)
                     /\ ListOfStrings(_filters.exclude)
                  THEN th[t].ret.kind = "return"
                  ELSE th[t].ret = Raise("OperationalException")

\* C13 (the claim as stated): whatever makes a category fetch fail, the
\* provider call raising or its response holding an entry without a symbol,
\* the error that leaves the refresh is a provider error (TemporaryError).
C13_FetchFailureIsTemporaryError ==
    \A t \in Threads :
        /\ th[t].refreshError \in {"none", "TemporaryError"}
        /\ (th[t].op \in {"filter_pairlist", "gen_pairlist"}
             /\ th[t].ret.kind = "raise")
               => th[t].ret.error # "KeyError"

\* The refresh of t's call failed at a time when the cache stored the
\* snapshot of an earlier successful fetch.
FailedAfterStore(t) ==
    /\ Done(t)
    /\ th[t].refreshError # "none"
    /\ th[t].cache0.present

Failing(i, base_curr, snapshot) ==
    ~rule(Entries[i].filter, base_curr,
          snapshot[Entries[i].filter][Entries[i].category])

\* How many items of seq are the pair.
Occurrences(pair, seq) == Cardinality({i \in DOMAIN seq : seq[i] = pair})

\* The keep/drop outcome from the sets of configured categories alone: the
\* base asset is in the list of every one of include and of none of exclude.
KeptBySets(pair, snapshot, include, exclude) ==
    /\ \A c \in include :
          InList(get_pair_base_currency(pair), snapshot["include"][c])
    /\ \A c \in exclude :
          ~InList(get_pair_base_currency(pair), snapshot["exclude"][c])

\* C15: the checks run over the include categories in configured order, then
\* over the exclude categories in configured order; each evaluation of an
\* excluded pair reports one reason, which names the pair, its base asset and
\* the rule kind and category of the first check of that order that fails,
\* and the evaluation of a retained pair reports none; whether a pair is
\* kept depends only on the sets of include and of exclude categories, not on
\* their order.
C15_FirstFailingCheckReported ==
    \A t \in Threads :
        Filtered(t) =>
            LET snapshot == th[t].filter_lists
                reasons == th[t].reasons
            IN  /\ \A i, j \in DOMAIN Entries :
                      (i < j /\ Entries[j].filter = "include")
                          => Entries[i].filter = "include"
                /\ \A pair \in Pairs :
                      Occurrences(pair, [i \in DOMAIN reasons |-> reasons[i].pair])
                          = IF InList(pair, th[t].ret.value) THEN 0
                            ELSE Occurrences(pair, th[t].input)
                /\ \A n \in DOMAIN reasons :
                      /\ reasons[n].base_curr
                            = get_pair_base_currency(reasons[n].pair)
                      /\ \E i \in DOMAIN Entries :
                            /\ reasons[n].filter = Entries[i].filter
                            /\ reasons[n].category = Entries[i].category
                            /\ Failing(i, reasons[n].base_curr, snapshot)
                            /\ \A j \in 1..(i - 1) :
                                  ~Failing(j, reasons[n].base_curr, snapshot)
                /\ \A pair \in Pairs :
                      _filter_pair(pair, snapshot)
                          <=> ~KeptBySets(pair, snapshot,
                                  {_filters.include[i] : i \in DOMAIN _filters.include},
                                  {_filters.exclude[i] : i \in DOMAIN _filters.exclude})

\* C15 witness: of two pairs one was retained and one excluded, the excluded
\* one failing two checks of which the first was reported.
C15_Witness ==
    \E t \in Threads :
        /\ Filtered(t)
        /\ Len(th[t].input) = 2
        /\ Len(th[t].ret.value) = 1
        /\ Len(th[t].reasons) = 1
        /\ Len(Entries) = 2
        /\ \A i \in DOMAIN Entries :
              Failing(i, th[t].reasons[1].base_curr, th[t].filter_lists)
        /\ th[t].reasons[1].category = Entries[1].category
        /\ Entries[1].category # Entries[2].category

\* The provider calls of a whole refresh cycle as the configuration orders
\* them: one per item of include, then one per item of exclude.
ConfiguredCalls ==
    [i \in 1..(Len(_filters.include) + Len(_filters.exclude)) |->
        IF i <= Len(_filters.include)
        THEN [filter |-> "include", category |-> _filters.include[i]]
        ELSE [filter |-> "exclude",
              category |-> _filters.exclude[i - Len(_filters.include)]]]

\* C16: the provider calls of a refresh cycle are, at every point of it, a
\* prefix of the configured entries (include in order, then exclude in
\* order); the cycle that reaches the store has made exactly
\* len(include) + len(exclude) calls; a call that fails ends the cycle in the
\* same step, being its last call; and no call is made outside a cycle.
C16_OneCallPerEntryInOrder ==
    [][\A t \in Threads :
          LET made == th'[t].calls
          IN  /\ made = SubSeq(ConfiguredCalls, 1, Len(made))
              /\ th'[t].pc = "fetch" => Len(made) = th'[t].idx - 1
              /\ th'[t].pc = "store"
                    => Len(made) = Len(_filters.include) + Len(_filters.exclude)
              /\ (th[t].pc = "fetch" /\ th'[t].pc # "fetch")
                    => /\ Len(made) = Len(th[t].calls) + 1
                       /\ (th'[t].refreshError # "none") <=> (th'[t].pc = "done")
                       /\ th'[t].pc \in {"store", "done"}
              /\ th[t].pc # "fetch" => made \in {th[t].calls, <<>>}]_vars

\* C16 witness: a cycle over one include and one exclude category has made
\* its two calls and the call has filtered with what they answered.
C16_Witness ==
    \E t \in Threads :
        /\ Filtered(t)
        /\ th[t].cycles = 1
        /\ Len(_filters.include) = 1
        /\ Len(_filters.exclude) = 1
        /\ _filters.include # _filters.exclude
        /\ Len(th[t].calls) = 2
        /\ th[t].calls[1].filter = "include"
        /\ th[t].calls[2].filter = "exclude"

\* C17 (the claim as stated): a call of filter_pairlist or of gen_pairlist
\* starts at most one fetch cycle, and a failed cycle leaves nothing cached
\* that a lookup would give.
C17_AtMostOneCyclePerCall ==
    \A t \in Threads :
        /\ th[t].cycles <= 1
        /\ (Done(t) /\ th[t].refreshError # "none") => ~CacheGet.some

\* C17 (amended): a failed fetch cycle ends the call that started it, so a
\* failure is never retried within the call, and it leaves nothing cached
\* that a lookup would give; a filter_pairlist call starts at most one cycle;
\* a gen_pairlist call starts at most two, the second one in its
\* filter_pairlist step and only when the snapshot stored by its first cycle
\* has expired by then.
C17_NoRetryOfFailedCycle ==
    \A t \in Threads :
        /\ th[t].refreshError # "none" => Done(t)
        /\ (Done(t) /\ th[t].refreshError # "none") => ~CacheGet.some
        /\ th[t].op = "filter_pairlist" => th[t].cycles <= 1
        /\ th[t].op = "gen_pairlist" => th[t].cycles <= 2
        /\ th[t].cycles = 2
              => /\ th[t].stage = "filter"
                 /\ th[t].cache0.present
                 /\ Expired(th[t].cache0, now)

\* C17 witness: a gen_pairlist call has ended after two fetch cycles, the
\* second of which failed.
C17_Witness ==
    \E t \in Threads :
        /\ Done(t)
        /\ th[t].op = "gen_pairlist"
        /\ th[t].cycles = 2
        /\ th[t].refreshError = "TemporaryError"

\* The snapshot has a dict for both filters, and in each a coin list for
\* every category configured under that filter.
Complete(snapshot) ==
    /\ DOMAIN snapshot = {"include", "exclude"}
    /\ \A i \in DOMAIN _filters.include :
          _filters.include[i] \in DOMAIN snapshot["include"]
    /\ \A i \in DOMAIN _filters.exclude :
          _filters.exclude[i] \in DOMAIN snapshot["exclude"]

\* C18: what the cache stores and what a call hands to the evaluation of
\* pairs is always a complete snapshot, so no check of _filter_pair reads an
\* entry that is missing; with include and exclude both empty the snapshot
\* (two empty dicts) is stored all the same, is found by the next lookup,
\* and every pair is retained.
C18_SnapshotsAreComplete ==
    /\ _filters_cache.present => Complete(_filters_cache.value)
    /\ \A t \in Threads :
          /\ th[t].pc = "store" => Complete(th[t].partial)
          /\ th[t].filter_lists # EmptyDict => Complete(th[t].filter_lists)
          /\ Filtered(t)
                => /\ Complete(th[t].filter_lists)
                   /\ \A i \in DOMAIN th[t].reasons :
                         th[t].reasons[i].category
                            \in DOMAIN th[t].filter_lists[th[t].reasons[i].filter]
          /\ (Filtered(t) /\ _filters.include = <<>> /\ _filters.exclude = <<>>)
                => /\ th[t].ret.value = th[t].input
                   /\ th[t].filter_lists
                        = [include |-> EmptyDict, exclude |-> EmptyDict]
                   /\ CacheGet.some
                   /\ CacheGet.value = th[t].filter_lists

\* C18 witness: with include and exclude both empty, a call took the
\* snapshot from the cache and retained both pairs of its list.
C18_Witness ==
    \E t \in Threads :
        /\ Filtered(t)
        /\ _filters.include = <<>>
        /\ _filters.exclude = <<>>
        /\ th[t].used.hit
        /\ Len(th[t].input) = 2
        /\ th[t].ret.value = th[t].input

\* C19: th[t].pairlist is the list object the caller passed to
\* filter_pairlist.  After a call that returned, the object holds what was
\* returned; after a successful call of the enabled filter that is the input
\* without the excluded pairs; after a call of the disabled filter, and after
\* a call whose snapshot retrieval failed, it holds what it held.
C19_CallerListFilteredInPlace ==
    \A t \in Threads :
        (Done(t) /\ th[t].stage = "filter")
            => /\ th[t].ret.kind = "return"
                    => th[t].pairlist = th[t].ret.value
               /\ Filtered(t)
                    => /\ \A i \in DOMAIN th[t].pairlist :
                             ~_filter_pair(th[t].pairlist[i], th[t].filter_lists)
                       /\ Len(th[t].pairlist)
                            = Len(th[t].input) - Len(th[t].reasons)
               /\ (~_enabled \/ th[t].refreshError # "none")
                    => th[t].pairlist = th[t].input

\* C19 witness: a successful call has removed a pair from the list object
\* it was given.
C19_Witness ==
    \E t \in Threads :
        /\ Filtered(t)
        /\ th[t].op = "filter_pairlist"
        /\ Len(th[t].input) = 2
        /\ Len(th[t].pairlist) = 1
        /\ th[t].pairlist = th[t].ret.value

=============================================================================
